---------------------------- MODULE Spec2Model ----------------------------
(***************************************************************************)
(* A model of util.py of hart-pytorch: bounding-box geometry, the masked   *)
(* negative-log loss family, gradient clipping and box-to-mask             *)
(* rasterisation.                                                          *)
(*                                                                         *)
(* The functions are pure (clip_grads mutates the gradients it is given),  *)
(* so the state is one call: the operation, its arguments and what it      *)
(* returned or left behind.  Each action draws the arguments from bounded  *)
(* sets and applies the operation.                                         *)
(*                                                                         *)
(* Numbers.  Box coordinates are integers and arithmetic is exact: a       *)
(* quotient is a reduced fraction, a division by zero yields the IEEE      *)
(* special values (NaN for 0/0, an infinity otherwise) and these propagate *)
(* as IEEE prescribes.  Rounding of floating-point sums and products is not   *)
(* modelled.  A negative logarithm is kept exactly, as its coordinates in  *)
(* the basis ln 2, ln 3, ln 5, ln 7 (which is free over the rationals).    *)
(*                                                                         *)
(* Tensors are functions from an index set to elements; a tensor of boxes  *)
(* of leading shape (batch, nobjs) has the index set (1..batch) \X         *)
(* (1..nobjs), a single box is a tensor with the one index 1.  A box is    *)
(* <<x, y, w, h>>: b[1..4] here is b[..., 0..3] of the source.             *)
(***************************************************************************)
EXTENDS Integers, Sequences, FiniteSets, TLC

VARIABLES op, args, ret

vars == <<op, args, ret>>

(***************************************************************************)
(* Bounds of the model.                                                    *)
(***************************************************************************)
MaxCoord == 1
MaxSize == 2
MaxBoxes == 2
MaxObjs == 2
MaxParams == 2
MaxGrad == 2
MaxNorm == 3
MaxMaskCoord == 2
MaxMaskSize == 2
MaxRegion == 2
MaxMaskBatch == 2

Coords == (0 - 1)..MaxCoord
Sizes == (0 - 1)..MaxSize
Boxes == Coords \X Coords \X Sizes \X Sizes

Min(a, b) == IF a <= b THEN a ELSE b
Max(a, b) == IF a >= b THEN a ELSE b
Abs(a) == IF a < 0 THEN 0 - a ELSE a

(***************************************************************************)
(* Exact arithmetic with the IEEE special values.                          *)
(***************************************************************************)
\* A float is a fraction [n, d]; d = 0 marks the special values.
NaN == [n |-> 0, d |-> 0]
Inf == [n |-> 1, d |-> 0]
IsFinite(p) == p.d # 0

\* What a call does: it raises AssertionError or returns a value.
AssertionError == [raised |-> TRUE, val |-> <<>>]
Return(v) == [raised |-> FALSE, val |-> v]

RECURSIVE GCD(_, _)
GCD(a, b) == IF b = 0 THEN a ELSE GCD(b, a % b)

\* the reduced fraction n/d, d # 0
Rat(n, d) ==
    LET g == GCD(Abs(n), Abs(d))
        s == IF d < 0 THEN 0 - 1 ELSE 1
    IN  [n |-> (s * n) \div g, d |-> (s * d) \div g]

RZero == Rat(0, 1)
RAdd(p, q) == Rat(p.n * q.d + q.n * p.d, p.d * q.d)
RMulInt(p, k) == Rat(p.n * k, p.d)
RDivInt(p, k) == Rat(p.n, p.d * k)

\* n / d of two integer-valued floats
FDiv(n, d) ==
    IF d = 0 THEN (IF n = 0 THEN NaN ELSE Inf) ELSE Rat(n, d)


(***************************************************************************)
(* Box geometry.                                                           *)
(***************************************************************************)
\* check_bbox_validness with the first assert only
check_width_only(b) == \A i \in DOMAIN b : b[i][3] >= 0

\* TRUE when both asserts pass, FALSE when one raises AssertionError
check_bbox_validness(b) ==
    /\ \A i \in DOMAIN b : b[i][3] >= 0
    /\ \A i \in DOMAIN b : b[i][4] >= 0

\* clamp_bbox clamping the width only
clamp_width_only(b) ==
    [i \in DOMAIN b |->
        <<b[i][1], b[i][2], b[i][3] - Min(b[i][3], 0), b[i][4]>>]

\* x.clamp(max=0) is Min(x, 0); detach() keeps the value
clamp_bbox(b) ==
    [i \in DOMAIN b |->
        LET bx == b[i][1]
            by == b[i][2]
            bw == b[i][3] - Min(b[i][3], 0)
            bh == b[i][4] - Min(b[i][4], 0)
        IN  <<bx, by, bw, bh>>]

\* intersection without the clamp(min=0) of the extents
intersection_noclamp(a, b) ==
    IF ~check_bbox_validness(a) \/ ~check_bbox_validness(b)
    THEN AssertionError
    ELSE Return([i \in DOMAIN a |->
            (Min(a[i][1] + a[i][3], b[i][1] + b[i][3]) - Max(a[i][1], b[i][1]))
          * (Min(a[i][2] + a[i][4], b[i][2] + b[i][4]) - Max(a[i][2], b[i][2]))])

intersection(a, b) ==
    IF ~check_bbox_validness(a) \/ ~check_bbox_validness(b)
    THEN AssertionError
    ELSE Return([i \in DOMAIN a |->
            LET x1 == Max(a[i][1], b[i][1])
                y1 == Max(a[i][2], b[i][2])
                x2 == Min(a[i][1] + a[i][3], b[i][1] + b[i][3])
                y2 == Min(a[i][2] + a[i][4], b[i][2] + b[i][4])
                w == Max(x2 - x1, 0)
                h == Max(y2 - y1, 0)
            IN  w * h])

\* intersection_within returning the corner in the global frame
intersection_within_global(bbox, within) ==
    IF ~check_bbox_validness(bbox) \/ ~check_bbox_validness(within)
    THEN AssertionError
    ELSE Return([i \in DOMAIN bbox |->
            LET x1 == Max(bbox[i][1], within[i][1])
                y1 == Max(bbox[i][2], within[i][2])
                x2 == Min(bbox[i][1] + bbox[i][3], within[i][1] + within[i][3])
                y2 == Min(bbox[i][2] + bbox[i][4], within[i][2] + within[i][4])
            IN  <<Max(x1, 0), Max(y1, 0), Max(x2 - x1, 0), Max(y2 - y1, 0)>>])

intersection_within(bbox, within) ==
    IF ~check_bbox_validness(bbox) \/ ~check_bbox_validness(within)
    THEN AssertionError
    ELSE Return([i \in DOMAIN bbox |->
            LET x1 == Max(bbox[i][1], within[i][1])
                y1 == Max(bbox[i][2], within[i][2])
                x2 == Min(bbox[i][1] + bbox[i][3], within[i][1] + within[i][3])
                y2 == Min(bbox[i][2] + bbox[i][4], within[i][2] + within[i][4])
                w == Max(x2 - x1, 0)
                h == Max(y2 - y1, 0)
                x == x1 - within[i][1]
                y == y1 - within[i][2]
            IN  <<Max(x, 0), Max(y, 0), w, h>>])

\* iou dividing by the sum of the areas, the intersection counted twice
iou_sum(a, b) ==
    LET i_area == intersection(a, b)
    IN  IF i_area.raised
        THEN AssertionError
        ELSE Return([i \in DOMAIN a |->
                FDiv(i_area.val[i], a[i][3] * a[i][4] + b[i][3] * b[i][4])])

iou(a, b) ==
    LET i_area == intersection(a, b)
    IN  IF i_area.raised
        THEN AssertionError
        ELSE Return([i \in DOMAIN a |->
                LET a_area == a[i][3] * a[i][4]
                    b_area == b[i][3] * b[i][4]
                IN  FDiv(i_area.val[i], a_area + b_area - i_area.val[i])])

(***************************************************************************)
(* The calls, one per behaviour: a call starts from the initial state,     *)
(* draws its arguments and leaves what it returned.  A tensor of one box   *)
(* has the index set {1}; tensors of several boxes are the sequences of    *)
(* 2..MaxBoxes boxes at the origin.                                        *)
(***************************************************************************)
One(b) == <<b>>

OriginBoxes == {b \in Boxes : b[1] = 0 /\ b[2] = 0 /\ b[3] <= 1 /\ b[4] <= 1}
BoxTensors ==
    {One(b) : b \in Boxes}
        \cup UNION {[1..n -> OriginBoxes] : n \in 2..MaxBoxes}

Init ==
    /\ op = "init"
    /\ args = <<>>
    /\ ret = Return(<<>>)

CheckBboxValidness ==
    /\ op = "init"
    /\ \E b \in BoxTensors :
        /\ op' = "check_bbox_validness"
        /\ args' = <<b>>
        /\ ret' = IF check_bbox_validness(b) THEN Return(<<>>) ELSE AssertionError

ClampBbox ==
    /\ op = "init"
    /\ \E b \in BoxTensors :
        /\ op' = "clamp_bbox"
        /\ args' = <<b>>
        /\ ret' = Return(clamp_bbox(b))

Intersection ==
    /\ op = "init"
    /\ \E a \in Boxes, b \in Boxes :
        /\ op' = "intersection"
        /\ args' = <<One(a), One(b)>>
        /\ ret' = intersection(One(a), One(b))

IntersectionWithin ==
    /\ op = "init"
    /\ \E bbox \in Boxes, within \in Boxes :
        /\ op' = "intersection_within"
        /\ args' = <<One(bbox), One(within)>>
        /\ ret' = intersection_within(One(bbox), One(within))

Iou ==
    /\ op = "init"
    /\ \E a \in Boxes, b \in Boxes :
        /\ op' = "iou"
        /\ args' = <<One(a), One(b)>>
        /\ ret' = iou(One(a), One(b))

Next ==
    \/ CheckBboxValidness
    \/ ClampBbox
    \/ Intersection
    \/ IntersectionWithin
    \/ Iou

Spec == Init /\ [][Next]_vars


(***************************************************************************)
(* Negative logarithms.  A log-float is NaN, an infinity (its sign is not  *)
(* kept) or the number sum over p of c[p] * ln p.                          *)
(***************************************************************************)
Primes == {2, 3, 5, 7}
EpsDigits == 8

LNum(c) == [k |-> "num", c |-> c]
LZero == LNum([p \in Primes |-> RZero])
LNaN == [k |-> "nan", c |-> LZero.c]
LInf == [k |-> "inf", c |-> LZero.c]

LMulInt(v, m) ==
    CASE v.k = "nan" -> LNaN
      [] v.k = "inf" -> IF m = 0 THEN LNaN ELSE LInf
      [] OTHER -> LNum([p \in Primes |-> RMulInt(v.c[p], m)])

LDivInt(v, m) ==
    CASE v.k = "nan" -> LNaN
      [] v.k = "inf" -> LInf
      [] m = 0 -> IF v = LZero THEN LNaN ELSE LInf
      [] OTHER -> LNum([p \in Primes |-> RDivInt(v.c[p], m)])

LAdd(u, v) ==
    CASE u.k = "nan" \/ v.k = "nan" -> LNaN
      [] u.k = "inf" \/ v.k = "inf" -> LInf
      [] OTHER -> LNum([p \in Primes |-> RAdd(u.c[p], v.c[p])])

\* the sum of f[i] over the indices i in S
RECURSIVE LSum(_, _)
LSum(f, S) ==
    IF S = {} THEN LZero
    ELSE LET i == CHOOSE j \in S : TRUE
         IN  LAdd(f[i], LSum(f, S \ {i}))

\* the exponent of the prime p in n >= 1
RECURSIVE Exponent(_, _)
Exponent(p, n) == IF n % p = 0 THEN 1 + Exponent(p, n \div p) ELSE 0

\* ln 10^-8, the value of x + dx at x = 0
LogEps == LNum([p \in Primes |->
                    IF p \in {2, 5} THEN Rat(EpsDigits, 1) ELSE RZero])

\* x is NaN, an infinity, or a fraction that is 0 or at least eps in size:
\* dx = eps where x < eps, and -log(x + dx)
nll(x) ==
    CASE x = NaN -> LNaN
      [] x = Inf -> LInf
      [] x.n < 0 -> LNaN
      [] x.n = 0 -> LogEps
      [] OTHER -> LNum([p \in Primes |->
                            Rat(Exponent(p, x.d) - Exponent(p, x.n), 1)])

(***************************************************************************)
(* The masked loss.  x, presence and weight are tensors over               *)
(* (1..batch) \X (1..nobjs); no weight is the empty tensor.                *)
(***************************************************************************)
NoWeight == <<>>
RowsOf(t) == {i[1] : i \in DOMAIN t}
ColsOf(t) == {i[2] : i \in DOMAIN t}

\* p = (presence != 0).float().sum(1)
PresentCount(presence, r) ==
    Cardinality({c \in ColsOf(presence) : presence[<<r, c>>] # 0})

\* p.clamp(min=1)
RowDivisor(presence, r) == Max(PresentCount(presence, r), 1)

\* (p != 0).float().sum()
BatchDivisor(presence) ==
    Cardinality({r \in RowsOf(presence) : PresentCount(presence, r) # 0})

masked_nll(x, presence, weight) ==
    LET nll_x == [i \in DOMAIN x |-> nll(x[i])]
        weighted == [i \in DOMAIN x |->
                        IF weight = NoWeight THEN nll_x[i]
                        ELSE LMulInt(nll_x[i], weight[i])]
        masked == [i \in DOMAIN x |->
                      LMulInt(weighted[i], IF presence[i] # 0 THEN 1 ELSE 0)]
        _nll == [r \in RowsOf(x) |->
                    LMulInt(
                        LDivInt(LSum([c \in ColsOf(x) |-> masked[<<r, c>>]],
                                     ColsOf(x)),
                                RowDivisor(presence, r)),
                        IF PresentCount(presence, r) # 0 THEN 1 ELSE 0)]
    IN  LDivInt(LSum(_nll, RowsOf(x)), BatchDivisor(presence))

iou_loss(a, b, presence) ==
    LET i == iou(a, b)
    IN  IF i.raised THEN AssertionError
        ELSE Return(masked_nll(i.val, presence, NoWeight))

\* the divisor without the guard: the bare target area
loss_divisor_unguarded(target) ==
    [i \in DOMAIN target |-> target[i][3] * target[i][4]]

\* area * (area != 0).float() + (area == 0).float()
loss_divisor(target) ==
    [i \in DOMAIN target |->
        LET area == target[i][3] * target[i][4]
        IN  area * (IF area # 0 THEN 1 ELSE 0) + (IF area = 0 THEN 1 ELSE 0)]

\* returns the loss; divisor and ratio are the locals behind it
intersection_loss(pred, target, presence) ==
    LET i == intersection(pred, target)
        divisor == loss_divisor(target)
    IN  IF i.raised THEN AssertionError
        ELSE LET ratio == [j \in DOMAIN pred |-> FDiv(i.val[j], divisor[j])]
             IN  Return([divisor |-> divisor,
                         ratio |-> ratio,
                         loss |-> masked_nll(ratio, presence, NoWeight)])

(***************************************************************************)
(* The calls of the loss family.                                           *)
(***************************************************************************)
BatchSizes == {1, 2}
Index(batch, nobjs) == (1..batch) \X (1..nobjs)

\* 1, 1/2, 0 and the NaN that iou returns for two boxes of zero area
XVals == {Rat(1, 1), Rat(1, 2), Rat(0, 1), NaN}
WeightVals == {1, 2}

\* weights that are the same in every batch row
Weights(batch, nobjs) ==
    {NoWeight} \cup
    {[i \in Index(batch, nobjs) |-> w[i[2]]] : w \in [1..nobjs -> WeightVals]}

\* (pred, target): half overlap, a target of zero area, two boxes of zero
\* area, a pred of negative width
LossPairs ==
    { <<(<<0, 0, 1, 1>>), (<<0, 0, 2, 1>>)>>,
      <<(<<0, 0, 1, 1>>), (<<0, 0, 0, 1>>)>>,
      <<(<<0, 0, 0, 0>>), (<<0, 0, 0, 0>>)>>,
      <<(<<0, 0, 0 - 1, 1>>), (<<0, 0, 1, 1>>)>> }

MaskedNll ==
    /\ op = "init"
    /\ \E batch \in BatchSizes, nobjs \in 1..MaxObjs :
        \E x \in [Index(batch, nobjs) -> XVals],
           presence \in [Index(batch, nobjs) -> {0, 1}],
           weight \in Weights(batch, nobjs) :
            /\ op' = "masked_nll"
            /\ args' = <<x, presence, weight>>
            /\ ret' = Return(masked_nll(x, presence, weight))

IouLoss ==
    /\ op = "init"
    /\ \E batch \in BatchSizes, nobjs \in 1..MaxObjs :
        \E pairs \in [Index(batch, nobjs) -> LossPairs],
           presence \in [Index(batch, nobjs) -> {0, 1}] :
            LET a == [i \in DOMAIN pairs |-> pairs[i][1]]
                b == [i \in DOMAIN pairs |-> pairs[i][2]]
            IN  /\ op' = "iou_loss"
                /\ args' = <<a, b, presence>>
                /\ ret' = iou_loss(a, b, presence)

IntersectionLoss ==
    /\ op = "init"
    /\ \/ \E pred \in Boxes, target \in Boxes :
            LET presence == [i \in {1} \X {1} |-> 1]
                p == [i \in {1} \X {1} |-> pred]
                t == [i \in {1} \X {1} |-> target]
            IN  /\ op' = "intersection_loss"
                /\ args' = <<p, t, presence>>
                /\ ret' = intersection_loss(p, t, presence)
       \/ \E batch \in BatchSizes, nobjs \in 1..MaxObjs :
            \E pairs \in [Index(batch, nobjs) -> LossPairs],
               presence \in [Index(batch, nobjs) -> {0, 1}] :
                LET p == [i \in DOMAIN pairs |-> pairs[i][1]]
                    t == [i \in DOMAIN pairs |-> pairs[i][2]]
                IN  /\ op' = "intersection_loss"
                    /\ args' = <<p, t, presence>>
                    /\ ret' = intersection_loss(p, t, presence)

NextNll == MaskedNll \/ IouLoss

SpecNll == Init /\ [][NextNll]_vars

NextLoss == IntersectionLoss

SpecLoss == Init /\ [][NextLoss]_vars

(***************************************************************************)
(* Gradient clipping.  named_params is a sequence of (name, parameter)     *)
(* pairs, of which the model keeps the gradient: [defined, num, sq] is the *)
(* one-element gradient num / sqrt(sq), undefined when p.grad is None.     *)
(* kind tells a list, which every for loop walks from its start, from a    *)
(* generator, which every for loop resumes where the last one stopped.     *)
(***************************************************************************)
NoGrad == [defined |-> FALSE, num |-> 0, sq |-> 1]
Grad(g) == [defined |-> TRUE, num |-> g, sq |-> 1]

\* the indices a for loop visits when consumed items were taken before
Iterate(named_params, kind, consumed) ==
    IF kind = "list" THEN 1..Len(named_params)
    ELSE (consumed + 1)..Len(named_params)

\* sum of p.grad.data.norm() ** 2 over the visited parameters with a grad
RECURSIVE SumSquares(_, _)
SumSquares(named_params, S) ==
    IF S = {} THEN 0
    ELSE LET i == CHOOSE j \in S : TRUE
             g == named_params[i]
         IN  (IF g.defined THEN g.num * g.num ELSE 0)
                 + SumSquares(named_params, S \ {i})

\* the gradients after the call; grad_norm is sqrt(norm2)
clip_grads(named_params, kind, max_norm) ==
    LET first == Iterate(named_params, kind, 0)
        norm2 == SumSquares(named_params, first)
        consumed == Len(named_params)
        second == IF norm2 > max_norm * max_norm
                  THEN Iterate(named_params, kind, consumed)
                  ELSE {}
    IN  [i \in DOMAIN named_params |->
            IF i \in second /\ named_params[i].defined
            THEN [defined |-> TRUE,
                  num |-> named_params[i].num * max_norm,
                  sq |-> norm2]
            ELSE named_params[i]]

GradVals == {NoGrad} \cup {Grad(g) : g \in (0 - MaxGrad)..MaxGrad}

ClipGrads ==
    /\ op = "init"
    /\ \E n \in 0..MaxParams :
        \E named_params \in [1..n -> GradVals],
           kind \in {"list", "generator"},
           max_norm \in 1..MaxNorm :
            /\ op' = "clip_grads"
            /\ args' = <<named_params, kind, max_norm>>
            /\ ret' = Return(clip_grads(named_params, kind, max_norm))

NextClip == ClipGrads

SpecClip == Init /\ [][NextClip]_vars

(***************************************************************************)
(* Box-to-mask rasterisation.  A raster is a function from                 *)
(* (0..rows-1) \X (0..cols-1) to {0, 1}.  _bbox_to_mask is modelled up to  *)
(* mask, the region-sized raster handed to the library's imresize.         *)
(***************************************************************************)
\* F.pad(core, (left, right, top, bottom)) of a core of ones, pads >= 0
Pad(core_rows, core_cols, left, right, top, bottom) ==
    [i \in (0..(top + core_rows + bottom - 1))
            \X (0..(left + core_cols + right - 1)) |->
        IF /\ top <= i[1] /\ i[1] < top + core_rows
           /\ left <= i[2] /\ i[2] < left + core_cols
        THEN 1 ELSE 0]

\* padded[:nrows, :ncols]
Slice(padded, nrows, ncols) ==
    [i \in {j \in DOMAIN padded : j[1] < nrows /\ j[2] < ncols} |-> padded[i]]

_bbox_to_mask(yy, region_size) ==
    LET neg_x == Max(0 - yy[1], 0)
        neg_y == Max(0 - yy[2], 0)
        core_cols == Max(yy[3] - neg_x, 1)
        core_rows == Max(yy[4] - neg_y, 1)
        y1 == Max(yy[2], 0)
        x1 == Max(yy[1], 0)
        y2 == Min(yy[2] + yy[4], region_size[1])
        x2 == Min(yy[1] + yy[3], region_size[2])
        padded == Pad(core_rows, core_cols,
                      x1, region_size[2] - x2, y1, region_size[1] - y2)
    IN  Slice(padded, Max(region_size[1], 1), Max(region_size[2], 1))

bbox_to_mask(bbox, region_rows, region_cols) ==
    [k \in DOMAIN bbox |->
        _bbox_to_mask(bbox[k], <<region_rows[k], region_cols[k]>>)]

MaskCoords == (0 - MaxMaskCoord)..MaxMaskCoord
MaskSizes == 0..MaxMaskSize
RegionSizes == 1..MaxRegion
MaskBoxes == MaskCoords \X MaskCoords \X MaskSizes \X MaskSizes
\* boxes of height 1 in the first row, for the calls with several boxes
RowBoxes == {b \in MaskBoxes : b[2] = 0 /\ b[4] = 1}

BboxToMaskOne ==
    /\ op = "init"
    /\ \E yy \in MaskBoxes, rows \in RegionSizes, cols \in RegionSizes :
        /\ op' = "_bbox_to_mask"
        /\ args' = <<yy, <<rows, cols>>>>
        /\ ret' = Return(_bbox_to_mask(yy, <<rows, cols>>))

BboxToMask ==
    /\ op = "init"
    /\ \E n \in 1..MaxMaskBatch :
        \E bbox \in [1..n -> RowBoxes],
           region_cols \in [1..n -> RegionSizes] :
            LET region_rows == [k \in 1..n |-> 1]
            IN  /\ op' = "bbox_to_mask"
                /\ args' = <<bbox, region_rows, region_cols>>
                /\ ret' = Return(bbox_to_mask(bbox, region_rows, region_cols))

NextMask == BboxToMaskOne \/ BboxToMask

SpecMask == Init /\ [][NextMask]_vars

(***************************************************************************)
(* Properties of the box geometry, checked under Spec.                     *)
(***************************************************************************)
Area(b) == b[3] * b[4]
Invalid(t) == \E i \in DOMAIN t : t[i][3] < 0 \/ t[i][4] < 0

\* C1: for boxes a, b with w, h >= 0, intersection(a, b) is at least 0 and
\* at most the smaller of the two areas.
C1_IntersectionBounded ==
    (op = "intersection" /\ ~Invalid(args[1]) /\ ~Invalid(args[2])) =>
        /\ ~ret.raised
        /\ \A i \in DOMAIN ret.val :
            /\ ret.val[i] >= 0
            /\ ret.val[i] <= Min(Area(args[1][i]), Area(args[2][i]))

\* a box strictly inside a larger one: the intersection is the smaller area
C1_Witness ==
    /\ op = "intersection"
    /\ ~ret.raised
    /\ ret.val[1] > 0
    /\ ret.val[1] = Area(args[1][1])
    /\ ret.val[1] < Area(args[2][1])

\* C6: check_bbox_validness raises exactly when some box has w < 0 or h < 0,
\* and intersection, intersection_within and iou raise the same error, with
\* no result, whenever one of their arguments holds such a box.
C6_ValidnessGuard ==
    /\ op = "check_bbox_validness" => (ret.raised <=> Invalid(args[1]))
    /\ (op = "check_bbox_validness" /\ ~Invalid(args[1])) => ret = Return(<<>>)
    /\ (/\ op \in {"intersection", "intersection_within", "iou"}
        /\ (Invalid(args[1]) \/ Invalid(args[2])))
            => ret = AssertionError

\* a tensor whose widths are all fine and whose second box has h < 0
C6_Witness ==
    /\ op = "check_bbox_validness"
    /\ ret.raised
    /\ Len(args[1]) = 2
    /\ \A i \in DOMAIN args[1] : args[1][i][3] >= 0
    /\ args[1][1][4] >= 0
    /\ args[1][2][4] < 0

\* C7: iou(a, b) = iou(b, a) for valid boxes with a non-zero union area, and
\* iou(a, a) = 1 for a box of positive area.
C7_IouSymmetricReflexive ==
    (op = "iou" /\ ~Invalid(args[1]) /\ ~Invalid(args[2])) =>
        /\ ~ret.raised
        /\ \A i \in DOMAIN ret.val :
            LET a == args[1][i]
                b == args[2][i]
                inter == intersection(args[1], args[2]).val[i]
            IN  /\ Area(a) + Area(b) - inter # 0
                    => ret.val[i] = iou(args[2], args[1]).val[i]
                /\ (a = b /\ a[3] > 0 /\ a[4] > 0)
                    => ret.val[i] = Rat(1, 1)

\* two different boxes that partly overlap
C7_Witness ==
    /\ op = "iou"
    /\ ~ret.raised
    /\ args[1][1] # args[2][1]
    /\ Area(args[1][1]) # Area(args[2][1])
    /\ IsFinite(ret.val[1])
    /\ ret.val[1].n > 0
    /\ ret.val[1].n < ret.val[1].d

\* C9: clamp_bbox returns (x, y, max(w, 0), max(h, 0)) for every box, its
\* output passes check_bbox_validness and clamping again changes nothing.
C9_ClampBbox ==
    op = "clamp_bbox" =>
        /\ ~ret.raised
        /\ DOMAIN ret.val = DOMAIN args[1]
        /\ \A i \in DOMAIN ret.val :
            LET b == args[1][i]
            IN  ret.val[i] = <<b[1], b[2], Max(b[3], 0), Max(b[4], 0)>>
        /\ check_bbox_validness(ret.val)
        /\ clamp_bbox(ret.val) = ret.val

\* a box of negative height and positive width is clamped
C9_Witness ==
    /\ op = "clamp_bbox"
    /\ \E i \in DOMAIN args[1] :
        /\ args[1][i][4] < 0
        /\ args[1][i][3] > 0
        /\ ret.val[i][4] = 0
        /\ ret.val[i][3] = args[1][i][3]

\* C10: for valid boxes intersection_within returns x, y, w, h >= 0 with
\* w * h = intersection(bbox, within) and (x, y) the corner of the
\* intersection rectangle in the frame of within; when the overlap has
\* positive area the rectangle lies inside within's extent.
C10_IntersectionWithin ==
    (op = "intersection_within" /\ ~Invalid(args[1]) /\ ~Invalid(args[2])) =>
        /\ ~ret.raised
        /\ \A i \in DOMAIN ret.val :
            LET bbox == args[1][i]
                within == args[2][i]
                r == ret.val[i]
            IN  /\ r[1] >= 0 /\ r[2] >= 0 /\ r[3] >= 0 /\ r[4] >= 0
                /\ r[3] * r[4] = intersection(args[1], args[2]).val[i]
                /\ r[1] = Max(bbox[1], within[1]) - within[1]
                /\ r[2] = Max(bbox[2], within[2]) - within[2]
                /\ r[3] * r[4] > 0
                    => (r[1] + r[3] <= within[3] /\ r[2] + r[4] <= within[4])

\* bbox starts inside within, whose origin is not the global origin
C10_Witness ==
    /\ op = "intersection_within"
    /\ ~ret.raised
    /\ args[2][1][1] # 0
    /\ args[1][1][1] > args[2][1][1]
    /\ ret.val[1][1] > 0
    /\ ret.val[1][3] * ret.val[1][4] > 0


(***************************************************************************)
(* Properties of the masked loss, checked under SpecNll.                   *)
(***************************************************************************)
Present(presence) == {i \in DOMAIN presence : presence[i] # 0}
NonEmptyRows(presence) ==
    {r \in RowsOf(presence) : \E i \in Present(presence) : i[1] = r}

\* the mean over the non-empty rows of the mean weighted nll of the present
\* slots of the row; the slots that are not present are not read
MeanOfPresent(x, presence, weight) ==
    LET term == [i \in Present(presence) |->
                    LMulInt(nll(x[i]),
                            IF weight = NoWeight THEN 1 ELSE weight[i])]
        rowmean == [r \in NonEmptyRows(presence) |->
                       LET slots == {i \in Present(presence) : i[1] = r}
                       IN  LDivInt(LSum(term, slots), Cardinality(slots))]
    IN  LDivInt(LSum(rowmean, NonEmptyRows(presence)),
                Cardinality(NonEmptyRows(presence)))

\* C4: masked_nll is the mean, over the rows with a present slot, of the
\* mean weighted nll of the present slots of the row; rows without a present
\* slot count for nothing and the x of a slot that is not present never
\* changes the result.
C4_MaskedMean ==
    (op = "masked_nll" /\ NonEmptyRows(args[2]) # {}) =>
        ret.val = MeanOfPresent(args[1], args[2], args[3])

\* C5: masked_nll returns a defined value for every presence mask, the masks
\* with empty rows or only empty rows included: no divisor it uses is zero
\* and, the x being numbers, the result is neither NaN nor infinite.
C5_MaskedNllDefined ==
    (op = "masked_nll" /\ \A i \in DOMAIN args[1] : IsFinite(args[1][i])) =>
        /\ \A r \in RowsOf(args[2]) : RowDivisor(args[2], r) # 0
        /\ BatchDivisor(args[2]) # 0
        /\ ret.val.k = "num"

(***************************************************************************)
(* Properties of intersection_loss, checked under SpecLoss.                *)
(***************************************************************************)
\* C8: in intersection_loss the divisor of every element is non-zero: it is
\* the target area when that is non-zero and 1 when it is zero, where the
\* ratio is the raw intersection, which is 0; the ratio is never NaN/Inf.
C8_LossDivisor ==
    (op = "intersection_loss" /\ ~Invalid(args[1]) /\ ~Invalid(args[2])) =>
        /\ ~ret.raised
        /\ \A i \in DOMAIN args[2] :
            LET area == Area(args[2][i])
                raw == intersection(args[1], args[2]).val[i]
            IN  /\ ret.val.divisor[i] # 0
                /\ ret.val.divisor[i] = (IF area # 0 THEN area ELSE 1)
                /\ IsFinite(ret.val.ratio[i])
                /\ ret.val.ratio[i].n * ret.val.divisor[i]
                       = raw * ret.val.ratio[i].d
                /\ area = 0 =>
                       (ret.val.ratio[i] = Rat(raw, 1) /\ raw = 0)

\* a batch with a target of zero area next to a target of positive area
C8_Witness ==
    /\ op = "intersection_loss"
    /\ ~ret.raised
    /\ \E i, j \in DOMAIN args[2] :
        /\ Area(args[2][i]) = 0
        /\ ret.val.divisor[i] = 1
        /\ ret.val.ratio[i] = Rat(0, 1)
        /\ Area(args[2][j]) > 1
        /\ ret.val.ratio[j].d > 1


(***************************************************************************)
(* Properties of clip_grads, checked under SpecClip.                       *)
(***************************************************************************)
\* the sum of the squares of the gradients g[i].num / sqrt(g[i].sq), times q
RECURSIVE ScaledSquares(_, _, _)
ScaledSquares(g, S, q) ==
    IF S = {} THEN 0
    ELSE LET i == CHOOSE j \in S : TRUE
         IN  (IF g[i].defined THEN (g[i].num * g[i].num * q) \div g[i].sq ELSE 0)
                 + ScaledSquares(g, S \ {i}, q)

\* C2: for a list and for a generator of (name, parameter) pairs alike, when
\* the global norm of the defined gradients exceeds max_norm every defined
\* gradient becomes its old value times max_norm / norm, so that the new
\* global norm is max_norm; otherwise every gradient is unchanged.
C2_ClipGrads ==
    op = "clip_grads" =>
        LET old == args[1]
            max_norm == args[3]
            norm2 == SumSquares(old, DOMAIN old)
        IN  IF norm2 > max_norm * max_norm
            THEN /\ \A i \in DOMAIN old :
                      ret.val[i] =
                          IF old[i].defined
                          THEN [defined |-> TRUE,
                                num |-> old[i].num * max_norm,
                                sq |-> norm2]
                          ELSE old[i]
                 /\ ScaledSquares(ret.val, DOMAIN old, norm2)
                        = max_norm * max_norm * norm2
            ELSE ret.val = old

(***************************************************************************)
(* Properties of the rasterisation, checked under SpecMask.                *)
(***************************************************************************)
\* the raster of the box clipped to the region
ClippedBox(yy, region_size) ==
    [i \in (0..(region_size[1] - 1)) \X (0..(region_size[2] - 1)) |->
        IF /\ yy[2] <= i[1] /\ i[1] < yy[2] + yy[4]
           /\ yy[1] <= i[2] /\ i[2] < yy[1] + yy[3]
        THEN 1 ELSE 0]

\* C3: for every box with w, h >= 0 and every region the region-sized raster
\* is 1 exactly at the pixels inside the box clipped to the region and 0
\* elsewhere; a box wholly outside the region gives an all-zero raster.
C3_MaskIsClippedBox ==
    /\ op = "_bbox_to_mask" => ret.val = ClippedBox(args[1], args[2])
    /\ op = "bbox_to_mask" =>
           \A k \in DOMAIN args[1] :
               ret.val[k] = ClippedBox(args[1][k], <<args[2][k], args[3][k]>>)

=============================================================================
